---- MODULE Spec2Model ----
(***************************************************************************)
(* Model of the Supabase AuthProvider (src/src/context/AuthContext.tsx)    *)
(* and of the ProtectedRoute route guard (src/unnamed/part_006 and its two *)
(* divergent copies part_005 and part_004).                                *)
(*                                                                         *)
(* The provider owns three pieces of React state: user (the profile row),  *)
(* session and isLoading.  They are written by initializeAuth, by the      *)
(* onAuthStateChange handler, by fetchUserProfile and by logout.  Each     *)
(* asynchronous function is cut at its awaits: one action runs the code    *)
(* from one await to the next.  The code after `await fetchUserProfile`    *)
(* (the finally block) runs in the microtask that follows the return of    *)
(* fetchUserProfile, before React can render, so the resolution of the     *)
(* read, the setUser and the finally block form one action.                *)
(*                                                                         *)
(* A session is represented by the id of its subject (session.user.id).    *)
(*                                                                         *)
(* Further parts: the account operations of the provider (login, signup,   *)
(* refreshUser, admin setup), the Firestore user documents and permission  *)
(* helpers (services/firebaseAuth.ts, services/authHelpers.ts), the        *)
(* Firebase useAuth hook (hooks/useAuth.ts), the testimonial handlers of   *)
(* the two dashboards, and the redirects issued by useAuthRedirect, by     *)
(* ProtectedRoute and by the dashboards' effects.                          *)
(***************************************************************************)
EXTENDS Integers, FiniteSets, Sequences, TLC

(* ---------------------------------------------------------------------- *)
(* Bounds                                                                 *)
(* ---------------------------------------------------------------------- *)

\* number of session-change events the identity provider delivers in a run;
\* where account operations (login, signup, admin setup, refreshUser) are
\* part of the run, the number of events and operations together
MaxEvents == 2

\* number of createUserDocument calls made in a run
MaxCalls == 2

(* ---------------------------------------------------------------------- *)
(* Values                                                                 *)
(* ---------------------------------------------------------------------- *)

Null == "null"

Subjects == {"u1", "u2"}

Sessions == Subjects \cup {Null}

\* role column of the users table; "none" stands for "no row for this id"
Roles == {"user", "admin"}

\* useState<User | null>(null): the null profile
NoUser == [id |-> Null, role |-> Null]

\* the row of the users table with id u, as fetchUserProfile receives it
Row(tbl, u) == [id |-> u, role |-> tbl[u]]

\* results of supabase.from('users').select('*').eq('id', userId).single()
ReadOutcomes == {"found", "PGRST116", "42501", "error", "nodata", "throw"}

\* the results the read can produce for subject u given the table
OutcomesFor(tbl, u) ==
  IF tbl[u] = "none"
    THEN ReadOutcomes \ {"found"}
    ELSE ReadOutcomes \ {"PGRST116"}

RequiredRoles == {"undefined", "user", "admin"}

GuardVariants == {"part_006", "part_005", "part_004"}

VARIABLES
  user,         \* useState user: a row of the users table or NoUser
  session,      \* useState session: subject id of the session or Null
  isLoading,    \* useState isLoading
  authSession,  \* the session the identity provider currently holds
  users,        \* the users table: subject id -> role or "none"
  initPc,       \* position of initializeAuth: "getSession", "fetch", "done"
  initSubj,     \* subject whose profile initializeAuth is fetching
  handlers,     \* onAuthStateChange invocations awaiting fetchUserProfile
  nEvents,      \* number of session-change events delivered so far
  logoutPc,     \* position of logout(): "idle" or "signOut"
  race,         \* history: the two overlapping handler invocations A, B
  lastOp,       \* history: the operation that completed last
  acct,         \* the account operation (signup, admin setup, refreshUser)
                \* that is awaiting a reply
  nOps,         \* number of account operations started so far
  docs,         \* Firestore collection "users": uid -> document or NoDoc
  calls,        \* createUserDocument calls that are awaiting a reply
  nCalls,       \* number of createUserDocument calls made so far
  perms,        \* argument userPerms / userDoc of the permission helpers
  reqRole,      \* argument requiredRole of hasPermission
  verdict,      \* what the permission helpers returned for these arguments
  target,       \* argument targetPerms of canModifyUser
  nav,          \* the router: current route and which copy of the redirect
                \* hook and of the route guard the build contains
  testimonials, \* the testimonials table: a set of rows
  nTestimonials,\* number of testimonials inserted so far
  fb            \* state of the Firebase useAuth hook (hooks/useAuth.ts)

\* the variables of the permission helpers, of the Firestore user documents
\* and of the account operations
permVars == <<perms, reqRole, verdict, target>>

pageVars == <<nav, testimonials, nTestimonials, fb>>

\* the AuthProvider state and the bookkeeping of its operations
provVars == <<user, session, isLoading, authSession, users, initPc, initSubj,
              handlers, nEvents, logoutPc, race, acct, nOps>>

docVars == <<docs, calls, nCalls>>

vars == <<user, session, isLoading, authSession, users, initPc, initSubj,
          handlers, nEvents, logoutPc, race, lastOp, acct, nOps,
          docs, calls, nCalls, perms, reqRole, verdict, target,
          nav, testimonials, nTestimonials, fb>>

(* ---------------------------------------------------------------------- *)
(* History records                                                        *)
(* ---------------------------------------------------------------------- *)

\* no row of the users table is written
NoRow == [id |-> Null, role |-> Null, isActive |-> FALSE,
          canWriteTestimonial |-> FALSE]

\* the required fields of the testimonial form, as first rendered
EmptyForm == [quote |-> "", trip |-> "", role |-> "", location |-> ""]

Op(op, subj, outcome, isolated, settled, variant, requiredRole, result) ==
  [op |-> op, subj |-> subj, outcome |-> outcome, isolated |-> isolated,
   overlap |-> FALSE, settled |-> settled, variant |-> variant,
   requiredRole |-> requiredRole, result |-> result,
   fetch |-> "n/a", log |-> {}, row |-> NoRow, actor |-> "n/a",
   message |-> "n/a", attempts |-> 0, fromNoProfile |-> FALSE,
   call |-> 0, existed |-> FALSE, form |-> EmptyForm, canWrite |-> FALSE,
   route |-> "n/a"]

NoOp == Op("none", Null, "n/a", FALSE, "n/a", "n/a", "n/a", "n/a")

NoRace == [active |-> FALSE, a |-> 0, b |-> 0, aSubj |-> Null, bSubj |-> Null,
           aDone |-> FALSE, bDone |-> FALSE, bUser |-> NoUser]

\* every in-flight handler learns that another writer ran during its await
Disturb(hs) == {[h EXCEPT !.isolated = FALSE] : h \in hs}

\* no account operation is awaiting a reply
\* another account operation may start in this run
OpsLeft == nEvents + nOps < MaxEvents

AcctIdle == [pc |-> "idle", subj |-> Null, isolated |-> FALSE,
             fromNoProfile |-> FALSE]

\* the account operation in flight learns that another writer ran
DisturbAcct(a) == [a EXCEPT !.isolated = FALSE]

(* ---------------------------------------------------------------------- *)
(* Derived context values                                                 *)
(* ---------------------------------------------------------------------- *)

isAuthenticated == session # Null

isAdmin == user.role = "admin"

(* ---------------------------------------------------------------------- *)
(* fetchUserProfile (AuthContext.tsx 91-159)                              *)
(* ---------------------------------------------------------------------- *)

\* fetchUserProfile that forgets setUser(data) on success
fetchUserProfileIgnoresData(outcome, row) ==
  IF outcome = "found" THEN user ELSE NoUser

\* fetchUserProfile whose PGRST116 branch returns without setUser(null)
fetchUserProfileKeepsStale(outcome, row) ==
  IF outcome = "found" THEN row
  ELSE IF outcome = "PGRST116" THEN user
  ELSE NoUser

\* the value fetchUserProfile passes to setUser for each result of the read
fetchUserProfile(outcome, row) ==
  CASE outcome = "PGRST116" -> NoUser     \* 115-121
    [] outcome = "42501"    -> NoUser     \* 122-127
    [] outcome = "error"    -> NoUser     \* 128-131
    [] outcome = "nodata"   -> NoUser     \* 134-138
    [] outcome = "throw"    -> NoUser     \* 142-158
    [] OTHER                -> row        \* 140-141

\* fetchUserProfile that rethrows an unclassified error to its caller
fetchUserProfileRethrows(outcome) == outcome \in {"error", "throw"}

\* whether the promise of fetchUserProfile rejects: its catch block swallows
\* every exception of the read
fetchUserProfileRejects(outcome) == FALSE

\* how the promise of fetchUserProfile settles
FetchSettled(outcome) ==
  IF fetchUserProfileRejects(outcome) THEN "rejected" ELSE "resolved"

\* the older copy of fetchUserProfile, src/unnamed/part_008 86-151: an
\* unclassified error is thrown inside the try block (line 122) and caught
\* by the catch block of the same function (133-150)
fetchUserProfileV8(outcome, row) ==
  CASE outcome = "PGRST116" -> NoUser     \* 108-113
    [] outcome = "42501"    -> NoUser     \* 114-119
    [] outcome = "error"    -> NoUser     \* 120-122, 133-150
    [] outcome = "nodata"   -> NoUser     \* 125-129
    [] outcome = "throw"    -> NoUser     \* 133-150
    [] OTHER                -> row        \* 131-132

fetchUserProfileRejectsV8(outcome) == FALSE

\* the error code fetchUserProfile reads from the error of the read (103)
ErrorCode(outcome) ==
  CASE outcome = "PGRST116" -> "PGRST116"
    [] outcome = "42501"    -> "42501"
    [] OTHER                -> "UNKNOWN"

\* console messages of fetchUserProfile, each with the code it prints
LogFetching == <<"[Auth] Fetching profile for user:", "">>
LogError(code) == <<"[Auth] Error fetching user profile:", code>>
LogNotFound == <<"[Auth] User profile not found in database (PGRST116).", "">>
LogRlsDenied == <<"[Auth] RLS Policy Denied (42501):", "">>
LogUnexpected(code) == <<"[Auth] Unexpected error fetching profile. Code:", code>>
LogNullData == <<"[Auth] Profile fetch returned null data", "">>
LogSuccess == <<"[Auth] Profile fetched successfully:", "">>
LogException == <<"[Auth] Exception while fetching user profile:", "">>

\* fetchUserProfile without the branch for code 42501: the denial is logged
\* as an unexpected error
fetchUserProfileLogNoRlsBranch(outcome) ==
  CASE outcome = "PGRST116" -> {LogFetching, LogError("PGRST116"), LogNotFound}
    [] outcome \in {"42501", "error"} ->
         {LogFetching, LogError("UNKNOWN"), LogUnexpected("UNKNOWN")}
    [] outcome = "nodata" -> {LogFetching, LogNullData}
    [] outcome = "throw" -> {LogFetching, LogException}
    [] OTHER -> {LogFetching, LogSuccess}

\* what fetchUserProfile writes to the console for each result of the read
fetchUserProfileLog(outcome) ==
  CASE outcome = "PGRST116" ->                                    \* 93, 107, 118
         {LogFetching, LogError(ErrorCode(outcome)), LogNotFound}
    [] outcome = "42501" ->                                       \* 93, 107, 124
         {LogFetching, LogError(ErrorCode(outcome)), LogRlsDenied}
    [] outcome = "error" ->                                       \* 93, 107, 129
         {LogFetching, LogError(ErrorCode(outcome)),
          LogUnexpected(ErrorCode(outcome))}
    [] outcome = "nodata" -> {LogFetching, LogNullData}           \* 93, 135
    [] outcome = "throw" -> {LogFetching, LogException}           \* 93, 147
    [] OTHER -> {LogFetching, LogSuccess}                         \* 93, 140

(* ---------------------------------------------------------------------- *)
(* initializeAuth (AuthContext.tsx 29-44)                                 *)
(* ---------------------------------------------------------------------- *)

\* initializeAuth without its finally block: isLoading keeps its value
InitFinallyMissing == isLoading

\* the value the finally block of initializeAuth gives isLoading (39-41)
InitFinally == FALSE

\* await supabase.auth.getSession() settles: "ok" with the provider's
\* current session, or "throw"
InitGetSession(res) ==
  /\ initPc = "getSession"
  /\ IF res = "ok"
       THEN /\ session' = authSession                        \* 32
            /\ IF authSession # Null
                 THEN /\ initPc' = "fetch"                   \* 34-35
                      /\ initSubj' = authSession
                      /\ UNCHANGED isLoading
                 ELSE /\ initPc' = "done"
                      /\ isLoading' = InitFinally            \* 40
                      /\ UNCHANGED initSubj
       ELSE /\ initPc' = "done"                              \* 37-38
            /\ isLoading' = InitFinally                      \* 40
            /\ UNCHANGED <<session, initSubj>>
  /\ handlers' = Disturb(handlers)
  /\ race' = NoRace
  /\ lastOp' = Op("initGetSession", authSession, res, FALSE, "resolved",
                  "n/a", "n/a", "n/a")
  /\ UNCHANGED <<user, authSession, users, nEvents, logoutPc>>
  /\ acct' = DisturbAcct(acct)
  /\ UNCHANGED <<nOps, docVars, permVars, pageVars>>

\* the profile read of initializeAuth settles; then the finally block
InitFetch(outcome) ==
  /\ initPc = "fetch"
  /\ outcome \in OutcomesFor(users, initSubj)
  /\ user' = IF fetchUserProfileRejects(outcome)
               THEN user
               ELSE fetchUserProfile(outcome, Row(users, initSubj))
  /\ isLoading' = InitFinally                                \* 40
  /\ initPc' = "done"
  /\ initSubj' = Null
  /\ handlers' = Disturb(handlers)
  /\ race' = NoRace
  /\ lastOp' = [Op("initDone", initSubj, outcome, FALSE, "resolved",
                     "n/a", "n/a", "n/a")
                  EXCEPT !.fetch = FetchSettled(outcome),
                         !.log = fetchUserProfileLog(outcome)]
  /\ UNCHANGED <<session, authSession, users, nEvents, logoutPc>>
  /\ acct' = DisturbAcct(acct)
  /\ UNCHANGED <<nOps, docVars, permVars, pageVars>>

(* ---------------------------------------------------------------------- *)
(* onAuthStateChange handler (AuthContext.tsx 47-84)                      *)
(* ---------------------------------------------------------------------- *)

\* nothing else of the provider is running
Quiet ==
  initPc = "done" /\ logoutPc = "idle" /\ handlers = {} /\ acct.pc = "idle"

\* the handler without its finally block: isLoading keeps its value
HandlerFinallyMissing == isLoading

\* the value the finally block of the handler gives isLoading (79-83)
HandlerFinally == FALSE

\* the handler without setUser(null) on a null session
HandlerSignedOutKeepsUser == user

\* the value the handler gives user when the event carries no session (61)
HandlerSignedOutUser == NoUser

\* the history variable race when an event for subject s arrives
RaceOnEvent(s) ==
  IF /\ s # Null
     /\ initPc = "done"
     /\ logoutPc = "idle"
     /\ Cardinality(handlers) = 1
     /\ \A h \in handlers : h.subj # s /\ h.isolated
    THEN LET a == CHOOSE h \in handlers : TRUE
         IN  [active |-> TRUE, a |-> a.id, b |-> nEvents + 1,
              aSubj |-> a.subj, bSubj |-> s,
              aDone |-> FALSE, bDone |-> FALSE, bUser |-> NoUser]
    ELSE NoRace

\* the identity provider delivers a session-change event carrying session s.
\* With s = Null the handler has no await and runs to its end; otherwise it
\* runs up to the await inside fetchUserProfile.
SessionChange(s) ==
  /\ nEvents < MaxEvents
  /\ nEvents' = nEvents + 1
  /\ authSession' = s
  /\ session' = s                                            \* 51
  /\ IF s # Null
       THEN /\ isLoading' = TRUE                             \* 55
            /\ handlers' = Disturb(handlers) \cup
                 {[id |-> nEvents + 1, subj |-> s, isolated |-> Quiet]}
            /\ UNCHANGED user
            /\ lastOp' = [Op("handlerStart", s, "n/a", Quiet, "pending",
                             "n/a", "n/a", "n/a")
                          EXCEPT !.overlap = handlers # {}]
       ELSE /\ user' = HandlerSignedOutUser                  \* 61
            /\ isLoading' = HandlerFinally                   \* 82
            /\ handlers' = Disturb(handlers)
            /\ lastOp' = [Op("handlerNull", s, "n/a", Quiet, "resolved",
                             "n/a", "n/a", "n/a")
                          EXCEPT !.overlap = handlers # {}]
  /\ race' = RaceOnEvent(s)
  /\ UNCHANGED <<users, initPc, initSubj, logoutPc>>
  /\ acct' = DisturbAcct(acct)
  /\ UNCHANGED <<nOps, docVars, permVars, pageVars>>

\* the history variable race when the read of handler h settles
RaceOnResume(h, u) ==
  IF ~race.active THEN NoRace
  ELSE IF h.id = race.a THEN [race EXCEPT !.aDone = TRUE]
  ELSE IF h.id = race.b THEN [race EXCEPT !.bDone = TRUE, !.bUser = u]
  ELSE NoRace

\* the profile read of handler invocation h settles: fetchUserProfile sets
\* the user, the handler resumes and runs its finally block
HandlerResume(h, outcome) ==
  /\ h \in handlers
  /\ outcome \in OutcomesFor(users, h.subj)
  /\ LET u == IF fetchUserProfileRejects(outcome)
                THEN NoUser                                  \* 63-78
                ELSE fetchUserProfile(outcome, Row(users, h.subj))
     IN  /\ user' = u
         /\ race' = RaceOnResume(h, u)
  /\ isLoading' = HandlerFinally                             \* 79-83
  /\ handlers' = handlers \ {h}
  /\ lastOp' = [Op("handlerDone", h.subj, outcome, h.isolated, "resolved",
                     "n/a", "n/a", "n/a")
                  EXCEPT !.fetch = FetchSettled(outcome),
                         !.log = fetchUserProfileLog(outcome)]
  /\ UNCHANGED <<session, authSession, users, initPc, initSubj, nEvents,
                 logoutPc>>
  /\ acct' = DisturbAcct(acct)
  /\ UNCHANGED <<nOps, docVars, permVars, pageVars>>

(* ---------------------------------------------------------------------- *)
(* logout (AuthContext.tsx 227-246)                                       *)
(* ---------------------------------------------------------------------- *)

\* logout() is called and awaits supabase.auth.signOut()
LogoutStart ==
  /\ logoutPc = "idle"
  /\ logoutPc' = "signOut"                                   \* 231
  /\ lastOp' = Op("logoutStart", Null, "n/a", FALSE, "pending",
                  "n/a", "n/a", "n/a")
  /\ UNCHANGED <<user, session, isLoading, authSession, users, initPc,
                 initSubj, handlers, nEvents, race>>
  /\ UNCHANGED <<acct, nOps, docVars, permVars, pageVars>>

\* logout() whose catch block rethrows without clearing the state
LogoutStateRethrow(res, u, s, l) ==
  IF res = "ok"
    THEN [user |-> NoUser, session |-> Null, isLoading |-> FALSE,
          settled |-> "resolved"]
    ELSE [user |-> u, session |-> s, isLoading |-> l, settled |-> "rejected"]

\* what logout() writes once signOut has settled with res ("ok" or
\* "reject"), given the current user u, session s and isLoading l
LogoutState(res, u, s, l) ==
  IF res = "ok"
    THEN [user |-> NoUser, session |-> Null, isLoading |-> FALSE,   \* 234-236
          settled |-> "resolved"]
    ELSE [user |-> NoUser, session |-> Null, isLoading |-> FALSE,   \* 242-244
          settled |-> "resolved"]

\* signOut settles and logout() runs to its end
LogoutResume(res) ==
  /\ logoutPc = "signOut"
  /\ LET st == LogoutState(res, user, session, isLoading)
     IN  /\ user' = st.user
         /\ session' = st.session
         /\ isLoading' = st.isLoading
         /\ lastOp' = Op("logout", Null, res, FALSE, st.settled,
                         "n/a", "n/a", "n/a")
  /\ authSession' = IF res = "ok" THEN Null ELSE authSession
  /\ logoutPc' = "idle"
  /\ handlers' = Disturb(handlers)
  /\ race' = NoRace
  /\ UNCHANGED <<users, initPc, initSubj, nEvents>>
  /\ acct' = DisturbAcct(acct)
  /\ UNCHANGED <<nOps, docVars, permVars, pageVars>>

(* ---------------------------------------------------------------------- *)
(* login (AuthContext.tsx 161-195)                                        *)
(* ---------------------------------------------------------------------- *)

\* error messages the identity provider and the profile store may report
Messages == {"", "Invalid login credentials"}

\* replies of supabase.auth.signInWithPassword: a session, no error and no
\* session, an error object, a thrown exception
LoginReplies == {"ok", "nosession", "error", "throw"}

\* login() that reports every failure with one generic message
LoginResultGeneric(res, m) ==
  IF res = "ok"
    THEN [error |-> Null, settled |-> "resolved"]
    ELSE [error |-> "An unexpected error occurred", settled |-> "resolved"]

\* what login() returns for a reply of the provider with message m
LoginResult(res, m) ==
  CASE res = "error" ->                                           \* 167-175
         [error |-> IF m = "" THEN "Unknown error" ELSE m,
          settled |-> "resolved"]
    [] res = "nosession" ->                                       \* 177-180
         [error |-> "Login succeeded but session was not created",
          settled |-> "resolved"]
    [] res = "throw" ->                                           \* 187-194
         [error |-> "An unexpected error occurred", settled |-> "resolved"]
    [] OTHER -> [error |-> Null, settled |-> "resolved"]          \* 186

\* login() that stores the session it received instead of leaving it to the
\* session-change handler
LoginSetsSession(res, m, s) ==
  /\ OpsLeft
  /\ nOps' = nOps + 1
  /\ authSession' = IF res = "ok" THEN s ELSE authSession
  /\ session' = IF res = "ok" THEN s ELSE session
  /\ lastOp' = [Op("login", s, res, FALSE, LoginResult(res, m).settled,
                   "n/a", "n/a", LoginResult(res, m).error)
                EXCEPT !.message = m, !.attempts = 1]
  /\ UNCHANGED <<user, isLoading, users, initPc, initSubj, handlers,
                 nEvents, logoutPc, race, acct, docVars, permVars, pageVars>>

\* login(email, password) for the account of subject s: the one call of
\* signInWithPassword (165) settles with reply res and message m and login
\* returns.  It writes no state of the provider.
Login(res, m, s) ==
  /\ OpsLeft
  /\ nOps' = nOps + 1
  /\ authSession' = IF res = "ok" THEN s ELSE authSession
  /\ lastOp' = [Op("login", s, res, FALSE, LoginResult(res, m).settled,
                   "n/a", "n/a", LoginResult(res, m).error)
                EXCEPT !.message = m, !.attempts = 1]
  /\ UNCHANGED <<user, session, isLoading, users, initPc, initSubj, handlers,
                 nEvents, logoutPc, race, acct, docVars, permVars, pageVars>>

(* ---------------------------------------------------------------------- *)
(* signup (AuthContext.tsx 197-225)                                       *)
(* ---------------------------------------------------------------------- *)

\* replies of supabase.auth.signUp: a user, an error object, no error and
\* no user, a thrown exception
SignupReplies == {"ok", "error", "nouser", "throw"}

\* replies of supabase.from('users').insert(...)
InsertReplies == {"ok", "23505", "42501", "throw"}

\* the replies an insert for id u can get given the table
InsertRepliesFor(tbl, u) ==
  IF tbl[u] = "none"
    THEN InsertReplies \ {"23505"}
    ELSE InsertReplies \ {"ok"}

\* signup that takes privileges for the new profile
SignupRowPrivileged(uid) ==
  [id |-> uid, role |-> "admin", isActive |-> TRUE,
   canWriteTestimonial |-> TRUE]

\* the row signup inserts for the auth user uid (210-217)
SignupRow(uid) ==
  [id |-> uid, role |-> "user", isActive |-> TRUE,
   canWriteTestimonial |-> FALSE]

\* what signup() returns when signUp did not yield a user (205, 207, 222-224)
SignupAuthResult(res, m) ==
  CASE res = "error" -> [error |-> m, settled |-> "resolved"]
    [] res = "nouser" ->
         [error |-> "Failed to create user", settled |-> "resolved"]
    [] OTHER ->
         [error |-> "An unexpected error occurred", settled |-> "resolved"]

\* what signup() returns once the insert has settled (219-224)
SignupInsertResult(res, m) ==
  CASE res = "ok" -> [error |-> Null, settled |-> "resolved"]
    [] res = "throw" ->
         [error |-> "An unexpected error occurred", settled |-> "resolved"]
    [] OTHER -> [error |-> m, settled |-> "resolved"]

\* signup(email, password, fullName): supabase.auth.signUp settles with
\* reply res; uid is the id of the auth user it created, signedIn tells
\* whether the provider also opened a session for it.  With a user the
\* insert of the profile row is issued, otherwise signup returns.
SignupAuth(res, m, uid, signedIn) ==
  /\ acct.pc = "idle"
  /\ OpsLeft
  /\ nOps' = nOps + 1
  /\ IF res = "ok"
       THEN /\ acct' = [pc |-> "signupInsert", subj |-> uid,
                        isolated |-> FALSE, fromNoProfile |-> FALSE]
            /\ authSession' = IF signedIn THEN uid ELSE authSession
            /\ lastOp' = [Op("signupAuth", uid, res, FALSE, "pending",
                             "n/a", "n/a", "n/a")
                          EXCEPT !.row = SignupRow(uid), !.attempts = 1]
       ELSE /\ UNCHANGED <<acct, authSession>>
            /\ lastOp' = [Op("signupAuth", Null, res, FALSE,
                             SignupAuthResult(res, m).settled,
                             "n/a", "n/a", SignupAuthResult(res, m).error)
                          EXCEPT !.message = m, !.attempts = 1]
  /\ UNCHANGED <<user, session, isLoading, users, initPc, initSubj, handlers,
                 nEvents, logoutPc, race, docVars, permVars, pageVars>>

\* the insert of signup settles and signup returns
SignupInsert(res, m) ==
  /\ acct.pc = "signupInsert"
  /\ res \in InsertRepliesFor(users, acct.subj)
  /\ users' = IF res = "ok"
                THEN [users EXCEPT ![acct.subj] = SignupRow(acct.subj).role]
                ELSE users
  /\ acct' = AcctIdle
  /\ lastOp' = [Op("signupInsert", acct.subj, res, FALSE,
                   SignupInsertResult(res, m).settled,
                   "n/a", "n/a", SignupInsertResult(res, m).error)
                EXCEPT !.message = m, !.attempts = 1,
                       !.row = IF res = "ok" THEN SignupRow(acct.subj)
                                             ELSE NoRow]
  /\ UNCHANGED <<user, session, isLoading, authSession, initPc, initSubj,
                 handlers, nEvents, logoutPc, race, nOps, docVars, permVars,
                 pageVars>>

(* ---------------------------------------------------------------------- *)
(* refreshUser (AuthContext.tsx 300-304)                                  *)
(* ---------------------------------------------------------------------- *)

\* session, user, isLoading show an authenticated subject without profile
\* and nothing of the provider is running
AuthenticatedNoProfileNow ==
  /\ session # Null
  /\ user = NoUser
  /\ ~isLoading
  /\ initPc = "done" /\ logoutPc = "idle" /\ handlers = {}

\* refreshUser() of a render whose session was s (s # Null): the call of
\* fetchUserProfile(s) it awaits (301-302)
RefreshCall(s) ==
  [pc |-> "refresh", subj |-> s,
   isolated |-> initPc = "done" /\ logoutPc = "idle" /\ handlers = {},
   fromNoProfile |-> AuthenticatedNoProfileNow /\ session = s]

\* a component calls refreshUser() of the current render
RefreshStart ==
  /\ acct.pc = "idle"
  /\ OpsLeft
  /\ nOps' = nOps + 1
  /\ IF session # Null
       THEN /\ acct' = RefreshCall(session)
            /\ lastOp' = Op("refreshStart", session, "n/a", FALSE, "pending",
                            "n/a", "n/a", "n/a")
       ELSE /\ acct' = acct                                        \* 301
            /\ lastOp' = Op("refreshNoSession", Null, "n/a", FALSE,
                            "resolved", "n/a", "n/a", "n/a")
  /\ UNCHANGED <<user, session, isLoading, authSession, users, initPc,
                 initSubj, handlers, nEvents, logoutPc, race, docVars,
                 permVars, pageVars>>

\* the profile read of refreshUser settles; refreshUser has no try/catch, so
\* it settles as fetchUserProfile does
RefreshResume(outcome) ==
  /\ acct.pc = "refresh"
  /\ outcome \in OutcomesFor(users, acct.subj)
  /\ user' = IF fetchUserProfileRejects(outcome)
               THEN user
               ELSE fetchUserProfile(outcome, Row(users, acct.subj))
  /\ lastOp' = [Op("refreshDone", acct.subj, outcome, acct.isolated,
                   FetchSettled(outcome), "n/a", "n/a", "n/a")
                EXCEPT !.fetch = FetchSettled(outcome),
                       !.log = fetchUserProfileLog(outcome),
                       !.fromNoProfile = acct.fromNoProfile]
  /\ acct' = AcctIdle
  /\ handlers' = Disturb(handlers)
  /\ race' = NoRace
  /\ UNCHANGED <<session, isLoading, authSession, users, initPc, initSubj,
                 nEvents, logoutPc, nOps, docVars, permVars, pageVars>>

(* ---------------------------------------------------------------------- *)
(* AdminSetup.handleCreateProfileManually (AdminSetup.tsx 34-79)          *)
(* ---------------------------------------------------------------------- *)

\* the row handleCreateProfileManually inserts for the session's subject
\* (40-47); the update on a duplicate key sets the same role and
\* canWriteTestimonial (52-59)
SetupRow(uid) ==
  [id |-> uid, role |-> "admin", isActive |-> TRUE,
   canWriteTestimonial |-> TRUE]

\* replies of supabase.from('users').update(...).eq('id', ...)
UpdateReplies == {"ok", "error", "throw"}

\* the button of the setup page is pressed: the page shows it once the
\* provider is not loading and a session exists (79-111), and leaves for the
\* dashboard when the profile is an admin's (18-22).  The insert is issued
\* for the session's subject.
SetupStart ==
  /\ acct.pc = "idle"
  /\ OpsLeft
  /\ ~isLoading
  /\ isAuthenticated
  /\ ~isAdmin
  /\ nOps' = nOps + 1
  /\ acct' = [pc |-> "setupInsert", subj |-> session, isolated |-> FALSE,
              fromNoProfile |-> FALSE]
  /\ lastOp' = [Op("setupStart", session, "n/a", FALSE, "pending",
                   "n/a", "n/a", "n/a")
                EXCEPT !.actor = users[session], !.row = SetupRow(session)]
  /\ UNCHANGED <<user, session, isLoading, authSession, users, initPc,
                 initSubj, handlers, nEvents, logoutPc, race, docVars,
                 permVars, pageVars>>

\* the insert settles: on success refreshUser() of the render that showed
\* the button is called, on a duplicate key the update is issued, any other
\* failure is caught (72-75)
SetupInsert(res) ==
  /\ acct.pc = "setupInsert"
  /\ res \in InsertRepliesFor(users, acct.subj)
  /\ users' = IF res = "ok"
                THEN [users EXCEPT ![acct.subj] = SetupRow(acct.subj).role]
                ELSE users
  /\ acct' = CASE res = "ok" -> RefreshCall(acct.subj)
               [] res = "23505" -> [acct EXCEPT !.pc = "setupUpdate"]
               [] OTHER -> AcctIdle
  /\ lastOp' = [Op("setupInsert", acct.subj, res, FALSE,
                   IF res \in {"ok", "23505"} THEN "pending" ELSE "resolved",
                   "n/a", "n/a", "n/a")
                EXCEPT !.actor = users[acct.subj],
                       !.row = IF res \in {"ok", "23505"}
                                 THEN SetupRow(acct.subj) ELSE NoRow]
  /\ UNCHANGED <<user, session, isLoading, authSession, initPc, initSubj,
                 handlers, nEvents, logoutPc, race, nOps, docVars, permVars,
                 pageVars>>

\* the update settles: on success refreshUser() is called, a failure is
\* thrown and caught (61, 72-75)
SetupUpdate(res) ==
  /\ acct.pc = "setupUpdate"
  /\ users' = IF res = "ok"
                THEN [users EXCEPT ![acct.subj] = SetupRow(acct.subj).role]
                ELSE users
  /\ acct' = IF res = "ok" THEN RefreshCall(acct.subj) ELSE AcctIdle
  /\ lastOp' = [Op("setupUpdate", acct.subj, res, FALSE,
                   IF res = "ok" THEN "pending" ELSE "resolved",
                   "n/a", "n/a", "n/a")
                EXCEPT !.actor = users[acct.subj],
                       !.row = IF res = "ok" THEN SetupRow(acct.subj)
                                             ELSE NoRow]
  /\ UNCHANGED <<user, session, isLoading, authSession, initPc, initSubj,
                 handlers, nEvents, logoutPc, race, nOps, docVars, permVars,
                 pageVars>>

(* ---------------------------------------------------------------------- *)
(* Firestore user documents (firebaseAuth.ts 239-388)                     *)
(* ---------------------------------------------------------------------- *)

\* USER_ROLES (239-244)
USER_ROLES == {"user", "content_creator", "moderator", "admin"}

\* APPROVAL_STATUS (249-254)
APPROVAL_STATUS == {"pending", "approved", "rejected", "auto_approved"}

\* userData.provider as the callers pass it; "" stands for a missing value
Providers == {"", "google"}

\* no document for this uid
NoDoc ==
  [role |-> "none", approvalStatus |-> "none", isActive |-> FALSE,
   provider |-> "none", by |-> 0]

\* createUserDocument that grants an approved admin document
NewUserDocumentTrusted(id, provider) ==
  [role |-> "admin", approvalStatus |-> "approved", isActive |-> TRUE,
   provider |-> IF provider = "" THEN "email" ELSE provider, by |-> id]

\* the document call id of createUserDocument builds (277-302); by is the
\* call that wrote it
NewUserDocument(id, provider) ==
  [role |-> "user", approvalStatus |-> "auto_approved", isActive |-> TRUE,
   provider |-> IF provider = "" THEN "email" ELSE provider, by |-> id]

\* createUserDocument without the check for an existing document
ExistingDocIgnored(d) == FALSE

\* existingDoc.exists() (273)
ExistingDoc(d) == d # NoDoc

\* createUserDocument(uid, userData) is called and issues getDoc (270-272)
CreateUserDocument(uid, provider) ==
  /\ nCalls < MaxCalls
  /\ nCalls' = nCalls + 1
  /\ calls' = calls \cup {[id |-> nCalls + 1, uid |-> uid,
                           provider |-> provider, pc |-> "getDoc",
                           existed |-> docs[uid] # NoDoc]}
  /\ lastOp' = [Op("createCall", uid, "n/a", FALSE, "pending",
                   "n/a", "n/a", "n/a")
                EXCEPT !.call = nCalls + 1, !.existed = docs[uid] # NoDoc]
  /\ UNCHANGED <<docs, permVars, pageVars>>
  /\ UNCHANGED <<user, session, isLoading, authSession, users, initPc,
                 initSubj, handlers, nEvents, logoutPc, race, acct, nOps>>

\* getDoc of call c settles: an exception is rethrown (310-313), an existing
\* document makes the call return (273-276), otherwise setDoc is issued (304)
CreateGetDoc(c, res) ==
  /\ c \in calls
  /\ c.pc = "getDoc"
  /\ calls' = IF res = "ok" /\ ~ExistingDoc(docs[c.uid])
                THEN (calls \ {c}) \cup {[c EXCEPT !.pc = "setDoc"]}
                ELSE calls \ {c}
  /\ lastOp' = [Op("createGetDoc", c.uid, res, FALSE,
                   CASE res = "throw" -> "rejected"
                     [] ExistingDoc(docs[c.uid]) -> "resolved"
                     [] OTHER -> "pending",
                   "n/a", "n/a", "n/a")
                EXCEPT !.call = c.id, !.existed = c.existed]
  /\ UNCHANGED <<docs, nCalls, permVars, pageVars>>
  /\ UNCHANGED <<user, session, isLoading, authSession, users, initPc,
                 initSubj, handlers, nEvents, logoutPc, race, acct, nOps>>

\* setDoc of call c settles: the document is written, or the exception is
\* rethrown (304-313)
CreateSetDoc(c, res) ==
  /\ c \in calls
  /\ c.pc = "setDoc"
  /\ calls' = calls \ {c}
  /\ docs' = IF res = "ok"
               THEN [docs EXCEPT ![c.uid] = NewUserDocument(c.id, c.provider)]
               ELSE docs
  /\ lastOp' = [Op("createSetDoc", c.uid, res, FALSE,
                   IF res = "ok" THEN "resolved" ELSE "rejected",
                   "n/a", "n/a", "n/a")
                EXCEPT !.call = c.id, !.existed = c.existed]
  /\ UNCHANGED <<nCalls, permVars, pageVars>>
  /\ UNCHANGED <<user, session, isLoading, authSession, users, initPc,
                 initSubj, handlers, nEvents, logoutPc, race, acct, nOps>>

\* updateUserRole(uid, role) of the admin tools (344-360); updateDoc fails
\* on a missing document
updateUserRole(uid, role) ==
  /\ docs[uid] # NoDoc
  /\ docs[uid].role # role
  /\ docs' = [docs EXCEPT ![uid].role = role]
  /\ lastOp' = Op("updateUserRole", uid, role, FALSE, "resolved",
                  "n/a", "n/a", "n/a")
  /\ UNCHANGED <<calls, nCalls, permVars, pageVars>>
  /\ UNCHANGED <<user, session, isLoading, authSession, users, initPc,
                 initSubj, handlers, nEvents, logoutPc, race, acct, nOps>>

\* updateUserApprovalStatus(uid, status, adminUid) (370-388)
updateUserApprovalStatus(uid, status) ==
  /\ docs[uid] # NoDoc
  /\ docs[uid].approvalStatus # status
  /\ docs' = [docs EXCEPT ![uid].approvalStatus = status]
  /\ lastOp' = Op("updateUserApprovalStatus", uid, status, FALSE, "resolved",
                  "n/a", "n/a", "n/a")
  /\ UNCHANGED <<calls, nCalls, permVars, pageVars>>
  /\ UNCHANGED <<user, session, isLoading, authSession, users, initPc,
                 initSubj, handlers, nEvents, logoutPc, race, acct, nOps>>

(* ---------------------------------------------------------------------- *)
(* Permission helpers (firebaseAuth.ts 397-475, authHelpers.ts 26-206)    *)
(* ---------------------------------------------------------------------- *)

\* role strings the helpers are applied to: USER_ROLES and one string that
\* is not a role
RoleInputs == USER_ROLES \cup {"guest"}

\* approval status strings the helpers are applied to
StatusInputs == APPROVAL_STATUS \cup {"unknown"}

\* a null userPerms / userDoc argument
NullPerms == [role |-> "null", approvalStatus |-> "null", isActive |-> FALSE]

\* the records the helpers are applied to
PermInputs ==
  {NullPerms} \cup
  [role : RoleInputs, approvalStatus : StatusInputs, isActive : BOOLEAN]

\* the targetPerms argument of canModifyUser: only its role is read
TargetInputs ==
  [role : RoleInputs, approvalStatus : {"approved"}, isActive : {TRUE}]

\* nothing evaluated yet
NoVerdict ==
  [evaluated |-> FALSE, canCreateContent |-> FALSE,
   canAccessProtectedFeatures |-> FALSE, canManageContent |-> FALSE,
   hasPermission |-> FALSE, hasRole |-> FALSE, targetHasRole |-> FALSE,
   checkRole |-> FALSE, canModifyUser |-> "n/a"]

\* roleHierarchy[role] ?? -1 (398-406)
roleHierarchy(role) ==
  CASE role = "user" -> 0
    [] role = "content_creator" -> 1
    [] role = "moderator" -> 2
    [] role = "admin" -> 3
    [] OTHER -> -1

\* hasRole that asks for a strictly higher level
hasRoleStrict(userRole, requiredRole) ==
  roleHierarchy(userRole) > roleHierarchy(requiredRole)

\* hasRole(userRole, requiredRole) (397-409)
hasRole(userRole, requiredRole) ==
  roleHierarchy(userRole) >= roleHierarchy(requiredRole)

\* isUserApproved that counts every status but pending as approved
isUserApprovedNotPending(approvalStatus) == approvalStatus # "pending"

\* isUserApproved(approvalStatus) (417-420)
isUserApproved(approvalStatus) ==
  approvalStatus \in {"approved", "auto_approved"}

\* canCreateContent(userDoc) (467-475)
canCreateContent(userDoc) ==
  IF userDoc = NullPerms
    THEN FALSE
    ELSE /\ isUserApproved(userDoc.approvalStatus)
         /\ \/ hasRole(userDoc.role, "content_creator")
            \/ hasRole(userDoc.role, "admin")

\* canAccessProtectedFeatures(userPerms) (authHelpers.ts 26-33)
canAccessProtectedFeatures(userPerms) ==
  IF userPerms = NullPerms
    THEN FALSE
    ELSE isUserApproved(userPerms.approvalStatus) /\ userPerms.isActive = TRUE

\* canManageContent(userPerms) (authHelpers.ts 42-50)
canManageContent(userPerms) ==
  IF userPerms = NullPerms
    THEN FALSE
    ELSE /\ isUserApproved(userPerms.approvalStatus)
         /\ userPerms.isActive = TRUE
         /\ hasRole(userPerms.role, "content_creator")

\* hasPermission(userPerms, requiredRole) (authHelpers.ts 198-206)
hasPermission(userPerms, requiredRole) ==
  IF userPerms = NullPerms
    THEN FALSE
    ELSE IF ~canAccessProtectedFeatures(userPerms)
           THEN FALSE
           ELSE hasRole(userPerms.role, requiredRole)

\* checkRole(role) of the Firebase useAuth hook (hooks/useAuth.ts 103-106)
\* for a user whose role field is userRole ("null": no user or no role)
checkRole(userRole, role) ==
  IF userRole = "null" THEN FALSE ELSE hasRole(userRole, role)

\* canModifyUser(initiatorPerms, targetPerms) (authHelpers.ts 242-254)
canModifyUser(initiatorPerms, targetPerms) ==
  IF initiatorPerms.role = targetPerms.role
    THEN hasRole(initiatorPerms.role, "admin")                  \* 247-249
    ELSE /\ hasRole(initiatorPerms.role, targetPerms.role)      \* 252
         /\ hasRole(initiatorPerms.role, "moderator")           \* 253

\* the helpers are applied to the record p, the required role r and the
\* target record t; canModifyUser reads initiatorPerms.role without a null
\* check, so a null initiator throws
Evaluate(p, r, t) ==
  /\ perms' = p
  /\ reqRole' = r
  /\ target' = t
  /\ verdict' = [evaluated |-> TRUE,
                 canCreateContent |-> canCreateContent(p),
                 canAccessProtectedFeatures |-> canAccessProtectedFeatures(p),
                 canManageContent |-> canManageContent(p),
                 hasPermission |-> hasPermission(p, r),
                 hasRole |-> hasRole(p.role, r),
                 targetHasRole |-> hasRole(t.role, r),
                 checkRole |-> checkRole(p.role, r),
                 canModifyUser |->
                   IF p = NullPerms THEN "throws"
                   ELSE IF canModifyUser(p, t) THEN "true" ELSE "false"]
  /\ UNCHANGED <<docVars, pageVars>>
  /\ UNCHANGED <<user, session, isLoading, authSession, users, initPc,
                 initSubj, handlers, nEvents, logoutPc, race, lastOp, acct,
                 nOps>>

(* ---------------------------------------------------------------------- *)
(* The Firebase useAuth hook (src/src/hooks/useAuth.ts 48-126)            *)
(* ---------------------------------------------------------------------- *)

\* user === null
NoFbUser == [uid |-> Null, role |-> "null", approvalStatus |-> "null"]

\* useState initial values (49-52): user null, userDoc null, loading true,
\* error null.  currentUser is the user the Firebase SDK holds, pending the
\* onAuthStateChanged callbacks awaiting getUserDocument, n the number of
\* callbacks started, logoutPc the position of logout().
FbMounted ==
  [user |-> NoFbUser, userDoc |-> NoDoc, loading |-> TRUE, error |-> "null",
   currentUser |-> Null, pending |-> {}, n |-> 0, logoutPc |-> "idle"]

\* what a rejected promise carries: an Error with a message, or another
\* value, for which the handlers substitute their default text
Thrown == {"Error", "other"}

\* err instanceof Error ? err.message : fallback (82, 97)
ErrorText(thrown, fallback) ==
  IF thrown = "Error" THEN "permission-denied" ELSE fallback

\* userWithRole (68-72): the auth user merged with the document's role and
\* approvalStatus, defaulting to 'user' and 'pending'
userWithRole(uid, userDocData) ==
  [uid |-> uid,
   role |-> IF userDocData = NoDoc THEN "user" ELSE userDocData.role,
   approvalStatus |-> IF userDocData = NoDoc THEN "pending"
                      ELSE userDocData.approvalStatus]

\* catch and finally of the callback (80-85): the error text is stored and
\* loading ends; user and userDoc keep their values
CallbackCatch(h, thrown) ==
  [h EXCEPT !.error = ErrorText(thrown, "Auth error occurred"),
            !.loading = FALSE]

\* the Firebase SDK reports currentUser cu and the callback runs to its
\* first await (56-62), or to its end for a null currentUser (76-79, 84)
OnAuthStateChanged(cu) ==
  /\ fb.n < MaxEvents
  /\ IF cu = Null
       THEN /\ fb' = [fb EXCEPT !.n = @ + 1, !.currentUser = Null,
                                !.error = "null", !.user = NoFbUser,
                                !.userDoc = NoDoc, !.loading = FALSE]
            /\ lastOp' = Op("fbCallbackDone", Null, "n/a", FALSE, "done",
                            "n/a", "n/a", "n/a")
       ELSE /\ fb' = [fb EXCEPT !.n = @ + 1, !.currentUser = cu,
                                !.error = "null", !.loading = TRUE,
                                !.pending = @ \cup
                                  {[id |-> fb.n + 1, uid |-> cu,
                                    pc |-> "getUserDocument",
                                    userDocData |-> NoDoc]}]
            /\ lastOp' = Op("fbCallbackStart", cu, "n/a", FALSE, "pending",
                            "n/a", "n/a", "n/a")
  /\ UNCHANGED <<provVars, docVars, permVars, nav, testimonials,
                 nTestimonials>>

\* getUserDocument of callback c settles (firebaseAuth.ts 322-335): the
\* document or null, or the exception it rethrows, which the callback
\* catches (80-85)
CallbackGetUserDocument(c, res, thrown) ==
  /\ c \in fb.pending
  /\ c.pc = "getUserDocument"
  /\ IF res = "ok"
       THEN /\ fb' = [fb EXCEPT !.pending = (@ \ {c}) \cup
                          {[c EXCEPT !.pc = "updateLastLogin",
                                     !.userDocData = docs[c.uid]]}]
            /\ lastOp' = Op("fbGetUserDocument", c.uid, "ok", FALSE,
                            "pending", "n/a", "n/a", "n/a")
       ELSE /\ fb' = [CallbackCatch(fb, thrown) EXCEPT !.pending = @ \ {c}]
            /\ lastOp' = Op("fbCallbackDone", c.uid, "throw", FALSE, "done",
                            "n/a", "n/a", "n/a")
  /\ UNCHANGED <<provVars, docVars, permVars, nav, testimonials,
                 nTestimonials>>

\* updateLastLogin of callback c settles; it swallows its own errors
\* (firebaseAuth.ts 449-458).  The callback sets user and userDoc (68-75)
\* and ends loading (84).
CallbackUpdateLastLogin(c) ==
  /\ c \in fb.pending
  /\ c.pc = "updateLastLogin"
  /\ fb' = [fb EXCEPT !.pending = @ \ {c},
                      !.user = userWithRole(c.uid, c.userDocData),
                      !.userDoc = c.userDocData,
                      !.loading = FALSE]
  /\ lastOp' = Op("fbCallbackDone", c.uid, "ok", FALSE, "done",
                  "n/a", "n/a", "n/a")
  /\ UNCHANGED <<provVars, docVars, permVars, nav, testimonials,
                 nTestimonials>>

\* logout() is called and awaits auth.signOut() (91-93)
HookLogoutStart ==
  /\ fb.n < MaxEvents
  /\ fb.logoutPc = "idle"
  /\ fb' = [fb EXCEPT !.n = @ + 1, !.logoutPc = "signOut"]
  /\ lastOp' = Op("fbLogoutStart", fb.user.uid, "n/a", FALSE, "pending",
                  "n/a", "n/a", "n/a")
  /\ UNCHANGED <<provVars, docVars, permVars, nav, testimonials,
                 nTestimonials>>

\* auth.signOut() settles: user and userDoc are cleared (94-95), or the
\* error text is stored and the error rethrown (96-99)
HookLogoutResume(res, thrown) ==
  /\ fb.logoutPc = "signOut"
  /\ IF res = "ok"
       THEN /\ fb' = [fb EXCEPT !.logoutPc = "idle", !.currentUser = Null,
                                !.user = NoFbUser, !.userDoc = NoDoc]
            /\ lastOp' = Op("fbLogoutDone", fb.user.uid, "ok", FALSE, "done",
                            "n/a", "n/a", "resolved")
       ELSE /\ fb' = [fb EXCEPT !.logoutPc = "idle",
                                !.error = ErrorText(thrown, "Logout failed")]
            /\ lastOp' = Op("fbLogoutDone", fb.user.uid, "reject", FALSE,
                            "done", "n/a", "n/a", "rethrown")
  /\ UNCHANGED <<provVars, docVars, permVars, nav, testimonials,
                 nTestimonials>>

(* ---------------------------------------------------------------------- *)
(* Testimonials (pages/UserDashboard.tsx, lib/supabase.ts)                *)
(* ---------------------------------------------------------------------- *)

\* at most this many testimonials are submitted in a run
MaxTestimonials == 2

\* the context value user read by the dashboards: null, or a profile row
\* with its canWriteTestimonial column
NoDashboardUser == [id |-> Null, role |-> "null", canWriteTestimonial |-> FALSE]

DashboardUsers ==
  {NoDashboardUser} \cup
  [id : Subjects, role : Roles, canWriteTestimonial : BOOLEAN]

\* the contents of the form: each required field empty or filled in
Forms == [quote : {"", "x"}, trip : {"", "x"}, role : {"", "x"},
          location : {"", "x"}]

\* the guards of handleSubmit without the canWriteTestimonial check
SubmitAllowedNoPermissionCheck(u, formData) ==
  /\ u # NoDashboardUser
  /\ formData.quote # "" /\ formData.trip # ""
  /\ formData.role # "" /\ formData.location # ""

\* the guards of handleSubmit (76-89): none of the early returns is taken
SubmitAllowed(u, formData) ==
  /\ u # NoDashboardUser                                        \* 76-79
  /\ u.canWriteTestimonial                                      \* 81-84
  /\ formData.quote # "" /\ formData.trip # ""                  \* 86-89
  /\ formData.role # "" /\ formData.location # ""

\* handleSubmit with context user u and form formData (73-125).  res is
\* the reply to the insert: the row-level policy or the network may refuse
\* it, and then nothing is stored (106, 119-121).
handleSubmit(u, formData, res) ==
  /\ nTestimonials < MaxTestimonials
  /\ IF SubmitAllowed(u, formData) /\ res = "ok"
       THEN /\ testimonials' = testimonials \cup
                  {[id |-> nTestimonials + 1, userId |-> u.id,
                    isPublished |-> FALSE]}                      \* 94-104
            /\ nTestimonials' = nTestimonials + 1
       ELSE UNCHANGED <<testimonials, nTestimonials>>
  /\ lastOp' = [Op("handleSubmit", u.id,
                   IF SubmitAllowed(u, formData) THEN res ELSE "n/a",
                   FALSE, "done", "n/a", "n/a",
                   IF SubmitAllowed(u, formData) /\ res = "ok"
                     THEN "inserted" ELSE "toast.error")
                EXCEPT !.actor = u.id, !.form = formData,
                       !.canWrite = u.canWriteTestimonial]
  /\ UNCHANGED <<provVars, docVars, permVars, nav, fb>>

\* the update of isPublished that both admin handlers issue
SetPublished(op, testimonialId, actor, res, value) ==
  /\ actor.role = "admin"
  /\ \E t \in testimonials : t.id = testimonialId
  /\ testimonials' =
       IF res = "ok"
         THEN {IF t.id = testimonialId THEN [t EXCEPT !.isPublished = value]
               ELSE t : t \in testimonials}
         ELSE testimonials
  /\ lastOp' = [Op(op, actor.id, res, FALSE, "done", "n/a", "n/a",
                   IF res = "ok" THEN "updated" ELSE "toast.error")
                EXCEPT !.actor = actor.id, !.call = testimonialId]
  /\ UNCHANGED <<provVars, docVars, permVars, nav, nTestimonials, fb>>

\* publishTestimonial(testimonialId) of AdminDashboard (lib/supabase.ts
\* 307-325); the page is shown to a context user with role admin (143-154)
publishTestimonial(testimonialId, actor, res) ==
  SetPublished("publishTestimonial", testimonialId, actor, res, TRUE)

\* unpublishTestimonial(testimonialId) (lib/supabase.ts 327-345)
unpublishTestimonial(testimonialId, actor, res) ==
  SetPublished("unpublishTestimonial", testimonialId, actor, res, FALSE)

\* deleteTestimonial of UserDashboard (127-141) for one of the user's own
\* testimonials, and of AdminDashboard (lib/supabase.ts 347-365)
deleteTestimonial(deleteId, res) ==
  /\ \E t \in testimonials : t.id = deleteId
  /\ testimonials' =
       IF res = "ok" THEN {t \in testimonials : t.id # deleteId}
       ELSE testimonials
  /\ lastOp' = [Op("deleteTestimonial", Null, res, FALSE, "done", "n/a",
                   "n/a", IF res = "ok" THEN "deleted" ELSE "toast.error")
                EXCEPT !.call = deleteId]
  /\ UNCHANGED <<provVars, docVars, permVars, nav, nTestimonials, fb>>

(* ---------------------------------------------------------------------- *)
(* Navigation                                                             *)
(* ---------------------------------------------------------------------- *)

Routes == {"/", "/user-dashboard", "/admin-dashboard"}

\* the two copies of the redirect hook: hooks/useAuthRedirect.ts and
\* hooks/useAuth.ts 128-159
HookVariants == {"useAuthRedirect.ts", "useAuth.ts"}

\* the home page is shown in a build with the given hook and guard
NavAt(hook, guard) == [route |-> "/", hook |-> hook, guard |-> guard]

(* ---------------------------------------------------------------------- *)
(* ProtectedRoute                                                         *)
(* ---------------------------------------------------------------------- *)

\* ProtectedRoute without the isLoading check of lines 13-22
ProtectedRouteNoLoadingCheck(loading, authed, admin, usr, requiredRole) ==
  IF ~authed THEN "redirect"
  ELSE IF requiredRole = "admin" /\ ~admin THEN "redirect"
  ELSE "children"

\* ProtectedRoute without the isAdmin check of lines 31-34
ProtectedRouteNoAdminCheck(loading, authed, admin, usr, requiredRole) ==
  IF loading THEN "loading"
  ELSE IF ~authed THEN "redirect"
  ELSE "children"

\* src/unnamed/part_006 9-44.  The result is what the component returns:
\* "loading" (the spinner), "redirect" (<Navigate to="/" replace />) or
\* "children".
ProtectedRoute(loading, authed, admin, usr, requiredRole) ==
  IF loading THEN "loading"                                  \* 13-22
  ELSE IF ~authed THEN "redirect"                            \* 25-28
  ELSE IF requiredRole = "admin" /\ ~admin THEN "redirect"   \* 31-34
  ELSE IF requiredRole = "user" /\ ~authed THEN "redirect"   \* 38-41
  ELSE "children"                                            \* 43

\* src/unnamed/part_005 9-35
ProtectedRouteV5(loading, authed, admin, usr, requiredRole) ==
  IF loading THEN "loading"                                  \* 12-18
  ELSE IF ~authed THEN "redirect"                            \* 20-22
  ELSE IF requiredRole = "admin" /\ ~admin THEN "redirect"   \* 25-27
  ELSE IF requiredRole = "user" /\ ~authed THEN "redirect"   \* 30-32
  ELSE "children"                                            \* 34

\* src/unnamed/part_004 9-43: a user route without a loaded profile shows
\* the "Setting up your account..." placeholder
ProtectedRouteV4(loading, authed, admin, usr, requiredRole) ==
  IF loading THEN "loading"                                  \* 12-18
  ELSE IF ~authed THEN "redirect"                            \* 20-22
  ELSE IF requiredRole = "admin" /\ ~admin THEN "redirect"   \* 25-27
  ELSE IF requiredRole = "user" /\ usr = NoUser THEN "settingUp"  \* 31-40
  ELSE "children"                                            \* 42

\* what copy v of ProtectedRoute returns for the current context value
GuardResult(v, r) ==
  CASE v = "part_006" ->
         ProtectedRoute(isLoading, isAuthenticated, isAdmin, user, r)
    [] v = "part_005" ->
         ProtectedRouteV5(isLoading, isAuthenticated, isAdmin, user, r)
    [] OTHER ->
         ProtectedRouteV4(isLoading, isAuthenticated, isAdmin, user, r)

\* the requiredRole the route is wrapped with (App.tsx 47-62)
RouteRole(route) == IF route = "/admin-dashboard" THEN "admin" ELSE "user"

\* the effect of useAuthRedirect: the route it navigates to, or "none".
\* hooks/useAuthRedirect.ts 13-27 tests user, hooks/useAuth.ts 142-158
\* tests isAuthenticated.
useAuthRedirect(hook) ==
  IF isLoading THEN "none"
  ELSE IF (IF hook = "useAuthRedirect.ts" THEN user # NoUser
           ELSE isAuthenticated)
    THEN IF isAdmin THEN "/admin-dashboard" ELSE "/user-dashboard"
    ELSE "none"

\* Index is shown and the effect of its useAuthRedirect runs
\* (AdminSetup.tsx 275-288): navigate(..., {replace: true}) or nothing
IndexEffect ==
  /\ nav.route = "/"
  /\ nav' = IF useAuthRedirect(nav.hook) = "none" THEN nav
            ELSE [nav EXCEPT !.route = useAuthRedirect(nav.hook)]
  /\ lastOp' = [Op("useAuthRedirect", session, "n/a", FALSE, "n/a",
                   nav.hook, "n/a",
                   IF useAuthRedirect(nav.hook) = "none" THEN "none"
                   ELSE "navigate")
                EXCEPT !.route = useAuthRedirect(nav.hook)]
  /\ UNCHANGED <<provVars, docVars, permVars, testimonials, nTestimonials,
                 fb>>

\* a dashboard route is shown and its ProtectedRoute returns
\* <Navigate to="/" replace />: the router goes to the home page, the
\* provider stays mounted
GuardRedirect ==
  /\ nav.route # "/"
  /\ GuardResult(nav.guard, RouteRole(nav.route)) = "redirect"
  /\ nav' = [nav EXCEPT !.route = "/"]
  /\ lastOp' = [Op("Navigate", session, "n/a", FALSE, "n/a", nav.guard,
                   RouteRole(nav.route), "redirect")
                EXCEPT !.route = "/"]
  /\ UNCHANGED <<provVars, docVars, permVars, testimonials, nTestimonials,
                 fb>>

\* the effect of the dashboard page asks for a reload of the home page:
\* UserDashboard when user is null (pages/UserDashboard.tsx 39-50),
\* AdminDashboard when isAdmin is false (lib/supabase.ts 143-154)
DashboardRedirects(route) ==
  /\ ~isLoading
  /\ IF route = "/admin-dashboard" THEN ~isAdmin ELSE user = NoUser

\* a dashboard route is shown, its ProtectedRoute renders the page, and the
\* page's effect sets window.location.href = '/': the document is loaded
\* anew, so the provider is constructed again (AuthContext.tsx 23-31) over
\* the session the identity provider has stored
DashboardEffect ==
  /\ nav.route # "/"
  /\ GuardResult(nav.guard, RouteRole(nav.route)) = "children"
  /\ DashboardRedirects(nav.route)
  /\ nav' = [nav EXCEPT !.route = "/"]
  /\ user' = NoUser
  /\ session' = Null
  /\ isLoading' = TRUE
  /\ initPc' = "getSession"
  /\ initSubj' = Null
  /\ handlers' = {}
  /\ logoutPc' = "idle"
  /\ race' = NoRace
  /\ acct' = AcctIdle
  /\ lastOp' = [Op("window.location.href", session, "n/a", FALSE, "n/a",
                   nav.guard, RouteRole(nav.route), "reload")
                EXCEPT !.route = "/"]
  /\ UNCHANGED <<authSession, users, nEvents, nOps, docVars, permVars,
                 testimonials, nTestimonials, fb>>

\* React renders copy v of ProtectedRoute with the given requiredRole from
\* the current context value (AuthContext.tsx 306-319)
Render(v, r) ==
  /\ lastOp' = Op("render", session, "n/a", FALSE, "n/a", v, r,
       CASE v = "part_006" ->
              ProtectedRoute(isLoading, isAuthenticated, isAdmin, user, r)
         [] v = "part_005" ->
              ProtectedRouteV5(isLoading, isAuthenticated, isAdmin, user, r)
         [] OTHER ->
              ProtectedRouteV4(isLoading, isAuthenticated, isAdmin, user, r))
  /\ UNCHANGED <<user, session, isLoading, authSession, users, initPc,
                 initSubj, handlers, nEvents, logoutPc, race>>
  /\ UNCHANGED <<acct, nOps, docVars, permVars, pageVars>>

(* ---------------------------------------------------------------------- *)
(* Specification                                                          *)
(* ---------------------------------------------------------------------- *)

\* the state after AuthProvider is constructed and mounted: the useState
\* initial values (23-25), initializeAuth awaiting getSession (31)
InitProvider ==
  /\ user = NoUser
  /\ session = Null
  /\ isLoading = TRUE
  /\ authSession \in Sessions
  /\ users \in [Subjects -> Roles \cup {"none"}]
  /\ initPc = "getSession"
  /\ initSubj = Null
  /\ handlers = {}
  /\ nEvents = 0
  /\ logoutPc = "idle"
  /\ race = NoRace
  /\ lastOp = NoOp
  /\ acct = AcctIdle
  /\ nOps = 0

\* an empty Firestore collection, no createUserDocument call made
InitDocs ==
  /\ docs = [u \in Subjects |-> NoDoc]
  /\ calls = {}
  /\ nCalls = 0

\* the permission helpers have not been applied
InitPerms ==
  /\ perms = NullPerms
  /\ reqRole = "user"
  /\ verdict = NoVerdict
  /\ target = [role |-> "user", approvalStatus |-> "approved",
               isActive |-> TRUE]

\* the application opens on the home page; the build contains the hook of
\* hooks/useAuthRedirect.ts, which Index imports, and the guard of part_006
InitNav == nav = NavAt("useAuthRedirect.ts", "part_006")

\* an empty testimonials table
InitTestimonials ==
  /\ testimonials = {}
  /\ nTestimonials = 0

\* the Firebase hook after its useState initial values (49-52)
InitHook == fb = FbMounted

Init ==
  /\ InitProvider
  /\ InitDocs
  /\ InitPerms
  /\ InitNav
  /\ InitTestimonials
  /\ InitHook

Next ==
  \/ \E res \in {"ok", "throw"} : InitGetSession(res)
  \/ \E o \in ReadOutcomes : InitFetch(o)
  \/ \E s \in Sessions : SessionChange(s)
  \/ \E h \in handlers, o \in ReadOutcomes : HandlerResume(h, o)
  \/ LogoutStart
  \/ \E res \in {"ok", "reject"} : LogoutResume(res)

Spec == Init /\ [][Next]_vars

\* the provider together with the account operations of its context value
\* and of the admin setup page
NextAccount ==
  \/ Next /\ nEvents' + nOps' <= MaxEvents
  \/ \E res \in LoginReplies, m \in Messages, s \in Subjects :
       Login(res, m, s)
  \/ \E res \in SignupReplies, m \in Messages, uid \in Subjects,
        signedIn \in BOOLEAN : SignupAuth(res, m, uid, signedIn)
  \/ \E res \in InsertReplies, m \in Messages : SignupInsert(res, m)
  \/ RefreshStart
  \/ \E o \in ReadOutcomes : RefreshResume(o)
  \/ SetupStart
  \/ \E res \in InsertReplies : SetupInsert(res)
  \/ \E res \in UpdateReplies : SetupUpdate(res)

\* the table has no row yet for the second subject: its rows come from
\* signup and from the setup page
InitAccount ==
  /\ Init
  /\ users["u2"] = "none"

AccountSpec == InitAccount /\ [][NextAccount]_vars

\* the Firebase variant: no Supabase session, no row of the users table
InitFirebase ==
  /\ Init
  /\ authSession = Null
  /\ users = [u \in Subjects |-> "none"]

\* createUserDocument calls, which may overlap, and the admin tools
NextDoc ==
  \/ \E uid \in Subjects, provider \in Providers :
       CreateUserDocument(uid, provider)
  \/ \E c \in calls, res \in {"ok", "throw"} : CreateGetDoc(c, res)
  \/ \E c \in calls, res \in {"ok", "throw"} : CreateSetDoc(c, res)
  \/ \E uid \in Subjects, role \in USER_ROLES : updateUserRole(uid, role)
  \/ \E uid \in Subjects, status \in APPROVAL_STATUS :
       updateUserApprovalStatus(uid, status)

DocSpec == InitFirebase /\ [][NextDoc]_vars

\* the permission helpers applied to every record and required role
NextPerm ==
  \E p \in PermInputs, r \in RoleInputs, t \in TargetInputs : Evaluate(p, r, t)

PermSpec == InitFirebase /\ [][NextPerm]_vars

\* the documents the hook may find: none, the one createUserDocument
\* writes, and one an admin has promoted with updateUserRole
HookDocs ==
  {NoDoc, NewUserDocument(1, "email"),
   [NewUserDocument(1, "email") EXCEPT !.role = "admin"]}

\* the Firebase hook mounted over a collection of such documents
InitFirebaseHook ==
  /\ InitProvider
  /\ authSession = Null
  /\ users = [u \in Subjects |-> "none"]
  /\ docs \in [Subjects -> HookDocs]
  /\ calls = {}
  /\ nCalls = 0
  /\ InitPerms
  /\ InitNav
  /\ InitTestimonials
  /\ InitHook

NextHook ==
  \/ \E cu \in Sessions : OnAuthStateChanged(cu)
  \/ \E c \in fb.pending, res \in {"ok", "throw"}, thrown \in Thrown :
       CallbackGetUserDocument(c, res, thrown)
  \/ \E c \in fb.pending : CallbackUpdateLastLogin(c)
  \/ HookLogoutStart
  \/ \E res \in {"ok", "reject"}, thrown \in Thrown :
       HookLogoutResume(res, thrown)

HookSpec == InitFirebaseHook /\ [][NextHook]_vars

\* the two dashboards over the testimonials table
NextTestimonial ==
  \/ \E u \in DashboardUsers, formData \in Forms, res \in {"ok", "error"} :
       handleSubmit(u, formData, res)
  \/ \E id \in 1..MaxTestimonials, a \in DashboardUsers,
        res \in {"ok", "error"} : publishTestimonial(id, a, res)
  \/ \E id \in 1..MaxTestimonials, a \in DashboardUsers,
        res \in {"ok", "error"} : unpublishTestimonial(id, a, res)
  \/ \E id \in 1..MaxTestimonials, res \in {"ok", "error"} :
       deleteTestimonial(id, res)

TestimonialSpec == InitFirebase /\ [][NextTestimonial]_vars

\* the provider together with the route guard that reads its context value
NextRoute ==
  \/ Next
  \/ \E v \in GuardVariants, r \in RequiredRoles : Render(v, r)

RouteSpec == Init /\ [][NextRoute]_vars

\* the home page with either copy of the redirect hook over the provider
NextRedirect ==
  \/ Next
  \/ IndexEffect

InitRedirect ==
  /\ InitProvider
  /\ InitDocs
  /\ InitPerms
  /\ nav \in {NavAt(hook, "part_006") : hook \in HookVariants}
  /\ InitTestimonials
  /\ InitHook

RedirectSpec == InitRedirect /\ [][NextRedirect]_vars

\* the promises the provider awaits: getSession and the profile read of
\* initializeAuth, the profile read of the handler invocation for event i,
\* and signOut
InitSettle ==
  \/ \E res \in {"ok", "throw"} : InitGetSession(res)
  \/ \E o \in ReadOutcomes : InitFetch(o)

HandlerSettle(i) ==
  \E h \in handlers, o \in ReadOutcomes : h.id = i /\ HandlerResume(h, o)

LogoutSettle == \E res \in {"ok", "reject"} : LogoutResume(res)

\* Spec under the assumption that every awaited promise settles
LiveSpec ==
  /\ Spec
  /\ WF_vars(InitSettle)
  /\ \A i \in 1..MaxEvents : WF_vars(HandlerSettle(i))
  /\ WF_vars(LogoutSettle)

\* a session whose subject has no row in the users table; the application
\* is opened at one of the three routes, in a build with either copy of
\* the hook and any copy of the guard
InitNavigation ==
  /\ InitProvider
  /\ authSession # Null
  /\ users = [u \in Subjects |-> "none"]
  /\ InitDocs
  /\ InitPerms
  /\ nav \in [route : Routes, hook : HookVariants, guard : GuardVariants]
  /\ InitTestimonials
  /\ InitHook

\* initializeAuth and the redirects of the hook, the guard and the pages;
\* no further session-change event and no user action
NextNavigation ==
  \/ InitSettle
  \/ IndexEffect
  \/ GuardRedirect
  \/ DashboardEffect

\* the step of the hook in which it navigates
IndexRedirect == IndexEffect /\ nav'.route # nav.route

\* every awaited promise settles, and React runs an effect or renders a
\* <Navigate> that is due
NavSpec ==
  /\ InitNavigation
  /\ [][NextNavigation]_vars
  /\ WF_vars(InitSettle)
  /\ WF_vars(IndexRedirect)
  /\ WF_vars(GuardRedirect)
  /\ WF_vars(DashboardEffect)

\* a visitor without session; the subject u2 has no profile row yet
InitSignup ==
  /\ InitAccount
  /\ authSession = Null

\* the replies of a profile read that succeeds: the row, or no row
ProfileReadOk == {"found", "PGRST116"}

\* getSession and the profile read of initializeAuth succeed
InitSettleOk ==
  \/ InitGetSession("ok")
  \/ \E o \in ProfileReadOk : InitFetch(o)

\* the identity provider reports the session it opened for the new user,
\* which the AuthProvider does not hold yet
SignedInEvent ==
  \E s \in Subjects : authSession = s /\ session # s /\ SessionChange(s)

\* the profile read of a handler invocation succeeds
HandlerSettleOk ==
  \E h \in handlers, o \in ProfileReadOk : HandlerResume(h, o)

\* the insert of signup settles
SignupSettle ==
  \E res \in InsertReplies, m \in Messages : SignupInsert(res, m)

\* the visitor calls signup(), once
SignupOnce ==
  /\ nOps = 0
  /\ \E res \in SignupReplies, m \in Messages, uid \in Subjects,
        signedIn \in BOOLEAN : SignupAuth(res, m, uid, signedIn)

\* signup by a visitor: no other user action, every profile read succeeds
NextSignup ==
  \/ InitSettleOk
  \/ SignupOnce
  \/ SignupSettle
  \/ SignedInEvent
  \/ HandlerSettleOk

\* every awaited promise settles and the sign-in event is delivered
SignupSpec ==
  /\ InitSignup
  /\ [][NextSignup]_vars
  /\ WF_vars(InitSettleOk)
  /\ WF_vars(SignupSettle)
  /\ WF_vars(SignedInEvent)
  /\ WF_vars(HandlerSettleOk)

TypeOK ==
  /\ user \in {NoUser} \cup [id : Subjects, role : Roles]
  /\ session \in Sessions
  /\ isLoading \in BOOLEAN
  /\ authSession \in Sessions
  /\ initPc \in {"getSession", "fetch", "done"}
  /\ nEvents \in 0..MaxEvents
  /\ logoutPc \in {"idle", "signOut"}
  /\ \A h \in handlers : h.subj \in Subjects /\ h.id \in 1..nEvents

(* ---------------------------------------------------------------------- *)
(* Properties                                                             *)
(* ---------------------------------------------------------------------- *)

\* a profile read for the subject of the current session is awaited
FetchInFlightForSession ==
  /\ session # Null
  /\ \/ \E h \in handlers : h.subj = session
     \/ initPc = "fetch" /\ initSubj = session

\* C1: once every invocation of the session-change handler has completed
\* (at least one has run, none awaits its profile read) isLoading is false,
\* and when every awaited promise settles isLoading never stays true:
\* whenever it is true it becomes false later.
C1_LoadingEnds ==
  /\ [](nEvents > 0 /\ handlers = {} => ~isLoading)
  /\ (isLoading ~> ~isLoading)

\* a handler invocation whose read failed has completed after overlapping
\* with another invocation, and isLoading is false
C1_Witness ==
  /\ lastOp.op = "handlerDone"
  /\ lastOp.outcome \in {"42501", "error", "throw"}
  /\ ~lastOp.isolated
  /\ nEvents >= 2
  /\ handlers = {}
  /\ ~isLoading

\* C2: isLoading is true only while initializeAuth has not completed or
\* while at least one handler invocation with a non-null session awaits its
\* profile read.
C2_LoadingOnlyInFlight ==
  isLoading => (initPc # "done" \/ handlers # {})

\* isLoading is true after initializeAuth completed, because of a handler
C2_Witness ==
  /\ isLoading
  /\ initPc = "done"
  /\ handlers # {}

\* C3: when the handler invocation for a null session completes, session
\* is null, user is null and isLoading is false, also while a profile read
\* started by an earlier invocation is still awaited.
C3_NullSessionClears ==
  lastOp.op = "handlerNull" =>
    session = Null /\ user = NoUser /\ ~isLoading

\* the null-session handler has just run while an earlier read is in flight
C3_Witness ==
  /\ lastOp.op = "handlerNull"
  /\ lastOp.overlap
  /\ handlers # {}
  /\ session = Null /\ user = NoUser /\ ~isLoading

\* C4: when logout() completes, session is null, user is null and isLoading
\* is false, whether signOut succeeded or rejected, and logout() resolved.
C4_LogoutClears ==
  lastOp.op = "logout" =>
    /\ session = Null
    /\ user = NoUser
    /\ ~isLoading
    /\ lastOp.settled = "resolved"

\* logout() has completed after signOut rejected, with a read in flight
C4_Witness ==
  /\ lastOp.op = "logout"
  /\ lastOp.outcome = "reject"
  /\ handlers # {}
  /\ session = Null /\ user = NoUser /\ ~isLoading

\* C5: after an event for session A and, before A's read settles, an event
\* for session B of another subject, once both reads have settled (in
\* either order) the stored user is what B's read produced: B's profile, or
\* null when B's read failed; never A's profile.
C5_FinalProfileIsB ==
  (race.active /\ race.aDone /\ race.bDone) => user = race.bUser

\* C6: every copy of ProtectedRoute renders the loading placeholder when
\* isLoading is true, for every requiredRole and every session and user.
C6_LoadingPlaceholder ==
  (lastOp.op = "render" /\ isLoading) => lastOp.result = "loading"

\* the admin route is rendered for a session with a loaded admin profile
\* while isLoading is true
C6_Witness ==
  /\ lastOp.op = "render"
  /\ lastOp.requiredRole = "admin"
  /\ isLoading
  /\ session # Null
  /\ user.role = "admin"
  /\ lastOp.result = "loading"

\* the decision the route guard is said to take for a required capability:
\* none = requiredRole undefined, authenticated = 'user', elevated = 'admin'
ClaimedRoute(r) ==
  IF isLoading THEN "loading"
  ELSE IF \/ r \in {"user", "admin"} /\ session = Null
          \/ r = "admin" /\ user.role # "admin"
    THEN "redirect"
  ELSE "children"

\* C7 as stated: ProtectedRoute (part_006) renders the placeholder iff
\* isLoading; otherwise redirects iff (capability authenticated or elevated
\* and session null) or (capability elevated and role not admin); otherwise
\* renders the children; with capability none it never redirects.
C7_Original ==
  (lastOp.op = "render" /\ lastOp.variant = "part_006") =>
    lastOp.result = ClaimedRoute(lastOp.requiredRole)

\* C7 amended: ProtectedRoute (part_006) renders exactly one of placeholder,
\* redirect, children: the placeholder iff isLoading; otherwise a redirect
\* iff session is null (for every requiredRole, undefined included) or
\* requiredRole is 'admin' and user.role is not 'admin'; otherwise the
\* children.
C7_RouteDecision ==
  (lastOp.op = "render" /\ lastOp.variant = "part_006") =>
    lastOp.result =
      IF isLoading THEN "loading"
      ELSE IF \/ session = Null
              \/ lastOp.requiredRole = "admin" /\ user.role # "admin"
        THEN "redirect"
      ELSE "children"

\* a session whose fetched profile has role admin gets the children of the
\* admin route
C7_Witness ==
  /\ lastOp.op = "render"
  /\ lastOp.variant = "part_006"
  /\ lastOp.requiredRole = "admin"
  /\ ~isLoading
  /\ session # Null
  /\ user.id = session
  /\ user.role = "admin"
  /\ lastOp.result = "children"

\* the reconciled state AuthenticatedNoProfile: a session, no profile,
\* isLoading false and nothing of the provider still running
AuthenticatedNoProfile ==
  /\ session # Null
  /\ user = NoUser
  /\ ~isLoading
  /\ Quiet

\* C8: in the state AuthenticatedNoProfile every copy of ProtectedRoute
\* renders the children for requiredRole 'user' (no redirect, no
\* placeholder) and redirects for requiredRole 'admin'.
C8_NoProfileRoutes ==
  (lastOp.op = "render" /\ AuthenticatedNoProfile) =>
    /\ lastOp.requiredRole = "user" => lastOp.result = "children"
    /\ lastOp.requiredRole = "admin" => lastOp.result = "redirect"

\* C9: isLoading is never false while a profile read for the subject of the
\* current session is still awaited.
C9_NoDecisionBeforeProfile ==
  ~isLoading => ~FetchInFlightForSession

\* C10: when a handler invocation for a non-null session completes with the
\* read answering PGRST116, and no other operation of the provider ran
\* between its start and its completion, then session is the new session,
\* user is null, isLoading is false and the handler resolved.
C10_NoProfileState ==
  (lastOp.op = "handlerDone" /\ lastOp.outcome = "PGRST116" /\ lastOp.isolated)
    => /\ session = lastOp.subj
       /\ user = NoUser
       /\ ~isLoading
       /\ lastOp.settled = "resolved"

\* an undisturbed handler invocation has completed on PGRST116
C10_Witness ==
  /\ lastOp.op = "handlerDone"
  /\ lastOp.outcome = "PGRST116"
  /\ lastOp.isolated
  /\ session = lastOp.subj
  /\ session # Null
  /\ user = NoUser
  /\ ~isLoading

\* C11: a handler invocation whose profile read returned not-found
\* (PGRST116), permission-denied (42501) or another error completes with the
\* same state in all three cases: session as the step found it, user null,
\* isLoading false; and the log of fetchUserProfile holds the
\* permission-denied marker exactly when the outcome was 42501, while
\* not-found and the other errors have markers of their own.
C11_FailuresSameState ==
  [][(lastOp'.op = "handlerDone"
        /\ lastOp'.outcome \in {"PGRST116", "42501", "error"})
      => /\ session' = session
         /\ user' = NoUser
         /\ isLoading' = FALSE
         /\ lastOp'.settled = "resolved"
         /\ (LogRlsDenied \in lastOp'.log <=> lastOp'.outcome = "42501")
         /\ (LogNotFound \in lastOp'.log <=> lastOp'.outcome = "PGRST116")
         /\ (LogUnexpected("UNKNOWN") \in lastOp'.log
               <=> lastOp'.outcome = "error")]_vars

\* a handler invocation completed after a permission-denied read: user is
\* null and the log holds the permission-denied marker
C11_Witness ==
  /\ lastOp.op = "handlerDone"
  /\ lastOp.outcome = "42501"
  /\ LogRlsDenied \in lastOp.log
  /\ session = lastOp.subj
  /\ user = NoUser
  /\ ~isLoading

\* C12: fetchUserProfile resolves for every outcome of the read, after
\* setting user to the row (found) or to null (every other outcome), so
\* initializeAuth, the session-change handler and refreshUser settle without
\* passing on an error of the profile store; the older fetchUserProfile that
\* throws inside its own try resolves for every outcome too.
C12_FetchNeverRejects ==
  /\ lastOp.op \in {"handlerDone", "initDone", "refreshDone"} =>
       /\ lastOp.fetch = "resolved"
       /\ lastOp.settled = "resolved"
       /\ user = IF lastOp.outcome = "found"
                   THEN Row(users, lastOp.subj)
                   ELSE NoUser
  /\ \A o \in ReadOutcomes, u \in Subjects :
       /\ ~fetchUserProfileRejectsV8(o)
       /\ fetchUserProfileV8(o, Row(users, u)) =
            IF o = "found" THEN Row(users, u) ELSE NoUser

\* refreshUser has settled after its read threw an exception: it resolved
\* and user is null
C12_Witness ==
  /\ lastOp.op = "refreshDone"
  /\ lastOp.outcome = "throw"
  /\ lastOp.settled = "resolved"
  /\ user = NoUser

\* C13: a step of login() or signup() changes none of user, session,
\* isLoading, whatever the provider replied; user becomes a profile row only
\* in a step where fetchUserProfile settles inside the session-change
\* handler, initializeAuth or refreshUser.
C13_LoginSignupFrame ==
  [][/\ lastOp'.op \in {"login", "signupAuth", "signupInsert"}
          => UNCHANGED <<user, session, isLoading>>
     /\ (user' # user /\ user' # NoUser)
          => lastOp'.op \in {"handlerDone", "initDone", "refreshDone"}]_vars

\* login() has returned success and the provider holds the new session,
\* while the local session and user are still null
C13_Witness ==
  /\ lastOp.op = "login"
  /\ lastOp.outcome = "ok"
  /\ lastOp.result = Null
  /\ authSession = lastOp.subj
  /\ session = Null
  /\ user = NoUser

\* C14 as stated: login() and signup() resolve, make one attempt, return
\* {error: null} on success and return the provider's message itself for
\* every failure of the provider, be it an error object or an exception.
C14_Original ==
  /\ lastOp.op = "login" =>
       /\ lastOp.settled = "resolved"
       /\ lastOp.attempts = 1
       /\ lastOp.outcome \in {"error", "throw"} =>
            lastOp.result = lastOp.message
       /\ lastOp.outcome = "ok" => lastOp.result = Null
  /\ (lastOp.op = "signupAuth" /\ lastOp.outcome # "ok") =>
       /\ lastOp.settled = "resolved"
       /\ lastOp.attempts = 1
       /\ lastOp.outcome \in {"error", "throw"} =>
            lastOp.result = lastOp.message
  /\ lastOp.op = "signupInsert" =>
       /\ lastOp.settled = "resolved"
       /\ lastOp.outcome = "ok" => lastOp.result = Null

\* C14: login() and signup() resolve and make one attempt at the provider.
\* An error object of the provider is returned with its message itself,
\* except that login reports an empty message as 'Unknown error'; an
\* exception is returned as 'An unexpected error occurred'; a reply without
\* error and without session (login) or user (signup) is returned with a
\* fixed message; a failed insert of signup is returned with the store's
\* message; success is {error: null}.
C14_ErrorsReturned ==
  /\ lastOp.op = "login" =>
       /\ lastOp.settled = "resolved"
       /\ lastOp.attempts = 1
       /\ lastOp.result =
            CASE lastOp.outcome = "ok" -> Null
              [] lastOp.outcome = "error" /\ lastOp.message # "" ->
                   lastOp.message
              [] lastOp.outcome = "error" /\ lastOp.message = "" ->
                   "Unknown error"
              [] lastOp.outcome = "nosession" ->
                   "Login succeeded but session was not created"
              [] OTHER -> "An unexpected error occurred"
  /\ (lastOp.op = "signupAuth" /\ lastOp.outcome # "ok") =>
       /\ lastOp.settled = "resolved"
       /\ lastOp.attempts = 1
       /\ lastOp.result =
            CASE lastOp.outcome = "error" -> lastOp.message
              [] lastOp.outcome = "nouser" -> "Failed to create user"
              [] OTHER -> "An unexpected error occurred"
  /\ lastOp.op = "signupInsert" =>
       /\ lastOp.settled = "resolved"
       /\ lastOp.attempts = 1
       /\ lastOp.result =
            CASE lastOp.outcome = "ok" -> Null
              [] lastOp.outcome = "throw" -> "An unexpected error occurred"
              [] OTHER -> lastOp.message

\* login() has returned the provider's message for rejected credentials
C14_Witness ==
  /\ lastOp.op = "login"
  /\ lastOp.outcome = "error"
  /\ lastOp.message = "Invalid login credentials"
  /\ lastOp.result = "Invalid login credentials"
  /\ lastOp.settled = "resolved"

\* C15: the row signup inserts has the id of the auth user signUp created,
\* role 'user' and canWriteTestimonial false, and that is the row the table
\* holds after a successful insert; when signUp fails or returns no user no
\* insert is issued and the table is unchanged.
C15_SignupRowUnprivileged ==
  [][/\ lastOp'.op = "signupAuth" =>
          /\ users' = users
          /\ IF lastOp'.outcome = "ok"
               THEN /\ acct'.pc = "signupInsert"
                    /\ acct'.subj = lastOp'.subj
                    /\ lastOp'.row.id = lastOp'.subj
                    /\ lastOp'.row.role = "user"
                    /\ lastOp'.row.canWriteTestimonial = FALSE
               ELSE /\ acct'.pc = "idle"
                    /\ lastOp'.row = NoRow
     /\ lastOp'.op = "signupInsert" =>
          IF lastOp'.outcome = "ok"
            THEN /\ lastOp'.subj = acct.subj
                 /\ users[acct.subj] = "none"
                 /\ users' = [users EXCEPT ![acct.subj] = "user"]
                 /\ lastOp'.row.id = acct.subj
                 /\ lastOp'.row.role = "user"
                 /\ lastOp'.row.canWriteTestimonial = FALSE
            ELSE users' = users]_vars

\* signup has inserted the profile row of the new auth user
C15_Witness ==
  /\ lastOp.op = "signupInsert"
  /\ lastOp.outcome = "ok"
  /\ lastOp.row.id = lastOp.subj
  /\ users[lastOp.subj] = "user"

\* C16: no operation of the client issues an insert or update with role
\* 'admin' for the row of a subject whose profile is absent or has role
\* 'user': a row with role 'admin' is sent only by an actor whose profile
\* has role 'admin'.
C16_NoSelfElevation ==
  lastOp.row.role = "admin" => lastOp.actor = "admin"

\* C17: refreshUser() called with a session issues the profile read for that
\* session's subject; when the read settles neither session nor isLoading
\* changes and a row that was found becomes user; started from
\* AuthenticatedNoProfile with nothing else of the provider running in
\* between, a read that finds the row leaves AuthenticatedWithProfile;
\* called without a session it issues no read and changes nothing.
C17_RefreshUser ==
  [][/\ lastOp'.op = "refreshStart" =>
          /\ session # Null
          /\ acct'.pc = "refresh"
          /\ acct'.subj = session
          /\ UNCHANGED <<user, session, isLoading>>
     /\ lastOp'.op = "refreshDone" =>
          /\ session' = session
          /\ isLoading' = isLoading
          /\ lastOp'.outcome = "found" => user' = Row(users, lastOp'.subj)
          /\ (lastOp'.outcome = "found" /\ lastOp'.isolated
                /\ lastOp'.fromNoProfile)
               => /\ session' = lastOp'.subj
                  /\ user'.id = session'
                  /\ user'.role = users[session']
                  /\ ~isLoading'
     /\ lastOp'.op = "refreshNoSession" =>
          /\ session = Null
          /\ UNCHANGED <<user, session, isLoading, authSession, users, acct,
                         handlers, initPc, logoutPc>>]_vars

\* refreshUser(), called in AuthenticatedNoProfile, has found the row of the
\* session's subject and user is that row
C17_Witness ==
  /\ lastOp.op = "refreshDone"
  /\ lastOp.outcome = "found"
  /\ lastOp.isolated
  /\ lastOp.fromNoProfile
  /\ session = lastOp.subj
  /\ user = Row(users, session)
  /\ ~isLoading

\* C18: initializeAuth completes with isLoading false.  With a persisted
\* session getSession is followed by one awaited profile read for its
\* subject; without a session no read is issued and the state is
\* Unauthenticated with user null; when getSession throws no read is issued.
C18_InitCompletes ==
  /\ lastOp.op = "initDone" => (initPc = "done" /\ ~isLoading)
  /\ lastOp.op = "initGetSession" =>
       CASE lastOp.outcome = "ok" /\ lastOp.subj # Null ->
              /\ initPc = "fetch"
              /\ initSubj = lastOp.subj
              /\ session = lastOp.subj
         [] lastOp.outcome = "ok" /\ lastOp.subj = Null ->
              /\ initPc = "done"
              /\ ~isLoading
              /\ session = Null
              /\ user = NoUser
         [] OTHER -> (initPc = "done" /\ ~isLoading)

\* C19: a createUserDocument call writes at most once, and what it writes
\* is a document with role 'user', approvalStatus 'auto_approved' and
\* isActive true for its uid only; a call made for a uid that already had a
\* document writes nothing in any of its steps, so the document stays as it
\* was (written by an earlier call, with whatever the admin tools changed
\* since).
C19_CreateOnce ==
  [][/\ lastOp'.op \in {"createCall", "createGetDoc"} => docs' = docs
     /\ lastOp'.op = "createSetDoc" =>
          IF lastOp'.outcome = "ok"
            THEN /\ docs'[lastOp'.subj].role = "user"
                 /\ docs'[lastOp'.subj].approvalStatus = "auto_approved"
                 /\ docs'[lastOp'.subj].isActive = TRUE
                 /\ docs'[lastOp'.subj].by = lastOp'.call
                 /\ \A u \in Subjects \ {lastOp'.subj} : docs'[u] = docs[u]
            ELSE docs' = docs
     /\ (lastOp'.op \in {"createCall", "createGetDoc", "createSetDoc"}
           /\ lastOp'.existed)
          => /\ docs' = docs
             /\ docs[lastOp'.subj] # NoDoc
             /\ lastOp'.op # "createSetDoc"
             /\ lastOp'.op = "createGetDoc" =>
                  \A c \in calls' : c.id # lastOp'.call]_vars

\* a second createUserDocument call for a uid has returned after finding the
\* document of the first call, which an admin had given another role in
\* between; the document is still the first call's with the admin's role
C19_Witness ==
  /\ lastOp.op = "createGetDoc"
  /\ lastOp.outcome = "ok"
  /\ lastOp.existed
  /\ lastOp.call = 2
  /\ docs[lastOp.subj].by = 1
  /\ docs[lastOp.subj].role = "content_creator"
  /\ calls = {}

\* C20: for a record with approvalStatus 'rejected', whatever its role and
\* isActive and whatever the required role, canCreateContent,
\* canAccessProtectedFeatures, canManageContent and hasPermission are false.
C20_RejectedDenied ==
  (verdict.evaluated /\ perms.approvalStatus = "rejected") =>
    /\ ~verdict.canCreateContent
    /\ ~verdict.canAccessProtectedFeatures
    /\ ~verdict.canManageContent
    /\ ~verdict.hasPermission

\* the helpers were applied to a rejected, active admin and the required
\* role 'user', and all of them returned false
C20_Witness ==
  /\ verdict.evaluated
  /\ perms = [role |-> "admin", approvalStatus |-> "rejected",
              isActive |-> TRUE]
  /\ reqRole = "user"
  /\ ~verdict.canCreateContent
  /\ ~verdict.canAccessProtectedFeatures
  /\ ~verdict.canManageContent
  /\ ~verdict.hasPermission

(* ---------------------------------------------------------------------- *)
(* Role hierarchy (claims C21, C28, C29)                                  *)
(* ---------------------------------------------------------------------- *)

\* C21: for two recognised roles hasRole(u, r) is true exactly when the
\* level of u in user(0) < content_creator(1) < moderator(2) < admin(3) is
\* at least the level of r; and when hasRole(u, r) holds, every recognised
\* role u2 whose level is at least that of u has hasRole(u2, r) too.
C21_Hierarchy ==
  LET level == [x \in USER_ROLES |->
                  CASE x = "user" -> 0
                    [] x = "content_creator" -> 1
                    [] x = "moderator" -> 2
                    [] OTHER -> 3]
  IN  (verdict.evaluated /\ perms.role \in USER_ROLES
         /\ reqRole \in USER_ROLES)
        => /\ verdict.hasRole <=> level[perms.role] >= level[reqRole]
           /\ (verdict.hasRole /\ target.role \in USER_ROLES
                 /\ level[target.role] >= level[perms.role])
                => verdict.targetHasRole

\* a moderator passes a content_creator requirement, and so does the admin
\* above it
C21_Witness ==
  /\ verdict.evaluated
  /\ perms.role = "moderator"
  /\ reqRole = "content_creator"
  /\ target.role = "admin"
  /\ verdict.hasRole
  /\ verdict.targetHasRole

\* C28: canModifyUser(initiator, target) is true only when the initiator's
\* role is strictly higher than the target's and at least moderator; it is
\* false whenever the two roles are equal and whenever the initiator's
\* level is below the target's.
C28_CanModifyUser ==
  (verdict.evaluated /\ perms # NullPerms)
    => /\ verdict.canModifyUser = "true"
            => /\ roleHierarchy(perms.role) > roleHierarchy(target.role)
               /\ roleHierarchy(perms.role) >= roleHierarchy("moderator")
       /\ perms.role = target.role => verdict.canModifyUser = "false"
       /\ roleHierarchy(perms.role) < roleHierarchy(target.role)
            => verdict.canModifyUser = "false"

\* C29: hasRole returns false whenever userRole is not a recognised role,
\* and false whenever requiredRole is not a recognised role; checkRole of
\* the hook, which calls it, does too.
C29_UnrecognisedDenied ==
  (verdict.evaluated
     /\ (perms.role \notin USER_ROLES \/ reqRole \notin USER_ROLES))
    => ~verdict.hasRole /\ ~verdict.checkRole

(* ---------------------------------------------------------------------- *)
(* Profile and session agree (claim C22)                                  *)
(* ---------------------------------------------------------------------- *)

\* C22: in every reachable state with isLoading false, a non-null user
\* comes with a non-null session for the same subject (user.id is
\* session.user.id), whatever the interleaving of handler invocations,
\* logout() and refreshUser().
C22_UserImpliesSession ==
  (~isLoading /\ user # NoUser) => (session # Null /\ user.id = session)

(* ---------------------------------------------------------------------- *)
(* The Firebase hook (claim C27)                                          *)
(* ---------------------------------------------------------------------- *)

\* C27: in the Firebase useAuth hook, loading is false after every
\* onAuthStateChanged callback completes, also when getUserDocument throws
\* (error then holds the message); after a callback for a non-null
\* currentUser completes, user is null or has that currentUser's uid, never
\* a previous subject's data; and a logout() whose signOut rejects sets
\* error, rethrows and leaves user and userDoc unchanged.
C27_HookCallbacks ==
  [][ /\ lastOp'.op = "fbCallbackDone"
           => /\ ~fb'.loading
              /\ lastOp'.outcome = "throw" => fb'.error # "null"
              /\ lastOp'.subj # Null
                   => fb'.user = NoFbUser \/ fb'.user.uid = lastOp'.subj
      /\ (lastOp'.op = "fbLogoutDone" /\ lastOp'.outcome = "reject")
           => /\ fb'.error # "null"
              /\ lastOp'.result = "rethrown"
              /\ fb'.user = fb.user
              /\ fb'.userDoc = fb.userDoc ]_vars

(* ---------------------------------------------------------------------- *)
(* Testimonials (claim C26)                                               *)
(* ---------------------------------------------------------------------- *)

\* C26: handleSubmit inserts a testimonial only when user is non-null,
\* user.canWriteTestimonial is true and quote, trip, role and location are
\* all non-empty; every testimonial it inserts has userId = user.id and
\* isPublished = false; and a testimonial's isPublished becomes true only
\* in a step of the admin's publishTestimonial.
C26_SubmitAndPublish ==
  [][ /\ \A t \in testimonials' :
           (\A old \in testimonials : old.id # t.id)
             => /\ lastOp'.op = "handleSubmit"
                /\ lastOp'.actor # Null
                /\ lastOp'.canWrite
                /\ lastOp'.form.quote # "" /\ lastOp'.form.trip # ""
                /\ lastOp'.form.role # "" /\ lastOp'.form.location # ""
                /\ t.userId = lastOp'.actor
                /\ ~t.isPublished
      /\ \A t \in testimonials' :
           (t.isPublished /\ [t EXCEPT !.isPublished = TRUE] \notin testimonials)
             => lastOp'.op = "publishTestimonial" ]_vars

\* a testimonial submitted by u1 has been published by the admin u2
C26_Witness ==
  /\ [id |-> 1, userId |-> "u1", isPublished |-> TRUE] \in testimonials
  /\ lastOp.op = "publishTestimonial"
  /\ lastOp.actor = "u2"

(* ---------------------------------------------------------------------- *)
(* Redirects (claims C24, C25)                                            *)
(* ---------------------------------------------------------------------- *)

\* C24: for a session without a profile row, the navigation performed by
\* useAuthRedirect on '/', by ProtectedRoute and by the dashboard's effect
\* reaches a route where no further redirect is issued: from some point on
\* the route never changes again, so there is no endless cycle between
\* '/' and '/user-dashboard'.
C24_NavigationSettles == <>[][nav'.route = nav.route]_vars

\* C25: useAuthRedirect issues no navigation while isLoading is true and
\* none when there is no session; once isLoading is false it navigates to
\* '/admin-dashboard' exactly when isAdmin is true, and to
\* '/user-dashboard' exactly when the subject is authenticated with a
\* loaded profile and is not an admin.
C25_RedirectTargets ==
  [][ lastOp'.op = "useAuthRedirect"
        => /\ (isLoading \/ session = Null) => nav'.route = nav.route
           /\ ~isLoading
                => /\ nav'.route = "/admin-dashboard" <=> isAdmin
                   /\ nav'.route = "/user-dashboard"
                        <=> (session # Null /\ user # NoUser /\ ~isAdmin)
    ]_vars

(* ---------------------------------------------------------------------- *)
(* After signup (claim C23)                                               *)
(* ---------------------------------------------------------------------- *)

\* C23: when signup() has returned {error: null} and the identity provider
\* holds a session for the new subject, then with every profile read
\* succeeding and no further user action the provider eventually has a
\* non-null user for that subject with role 'user': the read started by the
\* sign-in event before the insert completed does not leave the session
\* without profile for ever.
C23_SignupReachesProfile ==
  \A s \in Subjects :
    (lastOp.op = "signupInsert" /\ lastOp.outcome = "ok" /\ lastOp.subj = s
       /\ authSession = s)
      ~> (user.id = s /\ user.role = "user")
====
